---- MODULE Spec2Model ----
(***************************************************************************)
(* EWC trainers for continual graph classification                         *)
(* (begin/algorithms/ewc/graphs.py).                                       *)
(*                                                                         *)
(* GCTaskILEWCTrainer and GCClassILEWCTrainer carry textually identical    *)
(* afterInference / initTrainingStates / processAfterTraining bodies       *)
(* (lines 53-102 and 129-178); GCDomainILEWCTrainer and GCTimeILEWCTrainer *)
(* inherit the latter.  One model covers all of them.                      *)
(*                                                                         *)
(* Numbers: a float is modelled as an exact fraction n/d in lowest terms   *)
(* (d > 0), extended with the IEEE non-finite values NaN = 0/0,            *)
(* +Inf = 1/0 and -Inf = -1/0.  Rounding is not modelled.                  *)
(* Tensors: a parameter tensor is a sequence of such numbers.              *)
(***************************************************************************)
EXTENDS Integers, Sequences, FiniteSets, TLC

VARIABLES
    model_params,     \* live model: parameter name -> tensor (model.named_parameters())
    training_states,  \* [fishers |-> list of dicts, params |-> list of dicts]
    task_count,       \* number of processAfterTraining calls that returned normally
    last              \* observation of the last event-function call

vars == <<model_params, training_states, task_count, last>>

----------------------------------------------------------------------------
(* Float arithmetic *)

Abs(i) == IF i < 0 THEN -i ELSE i

Sgn(i) == IF i > 0 THEN 1 ELSE IF i < 0 THEN -1 ELSE 0

RECURSIVE GCD(_, _)
GCD(a, b) == IF b = 0 THEN a ELSE GCD(b, a % b)

\* n/d in lowest terms; a zero denominator gives +Inf, -Inf or NaN (0/0)
Norm(n, d) ==
    IF d = 0 THEN [n |-> Sgn(n), d |-> 0]
    ELSE LET s == Sgn(d)
             g == GCD(Abs(n), Abs(d))
         IN  [n |-> (s * n) \div g, d |-> Abs(d) \div g]

Q(n, d) == Norm(n, d)

Zero == Q(0, 1)

NaN == [n |-> 0, d |-> 0]

IsFinite(x) == x.d # 0

Add(x, y) ==
    IF x.d = 0 /\ y.d = 0
    THEN (IF x = y THEN x ELSE NaN)
    ELSE Norm(x.n * y.d + y.n * x.d, x.d * y.d)

Neg(x) == [n |-> -x.n, d |-> x.d]

Sub(x, y) == Add(x, Neg(y))

Mul(x, y) == Norm(x.n * y.n, x.d * y.d)

\* division of a float by a non-negative Python int (x / 0 is NaN or +-Inf, no exception)
DivInt(x, k) == Norm(x.n, x.d * k)

Less(x, y) == IsFinite(x) /\ IsFinite(y) /\ x.n * y.d < y.n * x.d

----------------------------------------------------------------------------
(* Tensors *)

Names == {"w", "b"}

\* number of elements of each parameter tensor
Shape == [w |-> 2, b |-> 1]

TZeros(k) == [e \in 1..k |-> Zero]

TAdd(s, t) == [e \in 1..Len(s) |-> Add(s[e], t[e])]

TSub(s, t) == [e \in 1..Len(s) |-> Sub(s[e], t[e])]

TMul(s, t) == [e \in 1..Len(s) |-> Mul(s[e], t[e])]

TScale(c, t) == [e \in 1..Len(t) |-> Mul(c, t[e])]

TSquare(t) == [e \in 1..Len(t) |-> Mul(t[e], t[e])]

TDivInt(t, k) == [e \in 1..Len(t) |-> DivInt(t[e], k)]

RECURSIVE TSum(_)
TSum(t) == IF t = <<>> THEN Zero ELSE Add(TSum(SubSeq(t, 1, Len(t) - 1)), t[Len(t)])

TAnyNaN(t) == \E e \in 1..Len(t) : ~IsFinite(t[e])

\* A tensor held by the history: a tensor of its own (own = TRUE, with its
\* values), or the very storage of the live parameter of the same name.
Owned(t) == [own |-> TRUE, v |-> t]

LiveStorage(name) == [own |-> FALSE, v |-> TZeros(Shape[name])]

Deref(ref, name, mp) == IF ref.own THEN ref.v ELSE mp[name]

----------------------------------------------------------------------------
(* Collaborators: model, optimizer, loss, loader (inputs of the event functions) *)

\* order of model.named_parameters()
ParamOrder == <<"w", "b">>

\* self.lamb: kwargs['lamb'] if given, else the default
lamb == 10000

\* parameter values the optimizer may leave the live model with
ParamPoints ==
    { [w |-> <<Q(1, 1), Q(1, 1)>>, b |-> <<Q(0, 1)>>],
      [w |-> <<Q(3, 2), Q(2, 1)>>, b |-> <<Q(1, 1)>>],
      [w |-> <<Q(2, 1), Q(1, 1)>>, b |-> <<Q(0, 1)>>] }

\* what inference returned for the batch of a training step:
\* results['loss'], results['preds'].shape[0], and the metric eval_fn gives
Results ==
    { [loss |-> Q(0, 1), n |-> 3, acc |-> Q(1, 1)],
      [loss |-> Q(1, 2), n |-> 5, acc |-> Q(3, 5)] }

\* p.grad: None, or a tensor
NoGrad(name) == [has |-> FALSE, v |-> TZeros(Shape[name])]

Grad(t) == [has |-> TRUE, v |-> t]

NoGrads == [name \in Names |-> NoGrad(name)]

\* A batch of a task's train loader, as the Fisher pass sees it: n is
\* _curr_batch[1].shape[0], grad[name] the gradient its loss gives parameter
\* name (NoGrad: the parameter takes no part in the loss), raises whether
\* inference or backward raises on it.
Batch(k, gw, gb) == [n |-> k, grad |-> [w |-> gw, b |-> gb], raises |-> FALSE]

RaisingBatch == [n |-> 3, grad |-> NoGrads, raises |-> TRUE]

Gw(a, b) == Grad(<<a, b>>)

Datasets ==
    { <<>>,
      << Batch(0, Gw(Q(1, 10), Zero), NoGrad("b")) >>,
      << Batch(3, Gw(Q(1, 10), Zero), NoGrad("b")),
         Batch(5, Gw(Q(1, 10), Zero), NoGrad("b")) >>,
      << Batch(5, Gw(Q(1, 5), Zero), NoGrad("b")),
         Batch(5, Gw(Zero, Zero), NoGrad("b")) >>,
      << Batch(3, Gw(Q(1, 10), Q(1, 5)), Grad(<<Q(-1, 10)>>)) >>,
      << Batch(3, Gw(Q(1, 10), Zero), NoGrad("b")), RaisingBatch >> }

\* gradients left in p.grad by the training loop when the task ends
EntryGrads ==
    { NoGrads,
      [w |-> Gw(Q(1, 1), Q(1, 1)), b |-> Grad(<<Q(1, 1)>>)] }

----------------------------------------------------------------------------
(* afterInference, lines 53-64 (and 129-140) *)

ZipLen(ts) ==
    IF Len(ts.params) <= Len(ts.fishers) THEN Len(ts.params) ELSE Len(ts.fishers)

\* PenaltyTerm with the drift not squared
PenaltyTermLinear(p, fisher, param) ==
    TMul(TScale(Q(lamb, 1), fisher), TSub(p, param))

\* lines 56-57 for one parameter: l = lamb * _fisher[name] * (p - _param[name]) ** 2
PenaltyTerm(p, fisher, param) ==
    TMul(TScale(Q(lamb, 1), fisher), TSquare(TSub(p, param)))

\* lines 55-58: the inner loop over named_parameters, from position k on
RECURSIVE PenaltyNames(_, _, _, _, _)
PenaltyNames(k, mp, param, fisher, loss_reg) ==
    IF k > Len(ParamOrder) THEN loss_reg
    ELSE LET name == ParamOrder[k]
             l == PenaltyTerm(mp[name],
                              Deref(fisher[name], name, mp),
                              Deref(param[name], name, mp))
         IN  PenaltyNames(k + 1, mp, param, fisher, Add(loss_reg, TSum(l)))

\* lines 54-58: the outer loop over zip(params, fishers), from pair i on
RECURSIVE PenaltyLoop(_, _, _, _)
PenaltyLoop(i, mp, ts, loss_reg) ==
    IF i > ZipLen(ts) THEN loss_reg
    ELSE PenaltyLoop(i + 1, mp, ts,
                     PenaltyNames(1, mp, ts.params[i], ts.fishers[i], loss_reg))

\* lines 53-58: loss_reg
Penalty(mp, ts) == PenaltyLoop(1, mp, ts, Zero)

\* line 59
TotalLoss(results, loss_reg) == Add(results.loss, loss_reg)

\* lines 60-61: the calls made on the loss and on the optimizer, in order
TrainCalls == << "backward", "step" >>

\* d total_loss / d p[name][e] restricted to the penalty: a non-finite Fisher
\* value, snapshot or parameter makes the gradient, and so the updated
\* parameter, NaN whatever the optimizer
RECURSIVE GradFinite(_, _, _, _, _)
GradFinite(i, mp, ts, name, e) ==
    IF i > ZipLen(ts) THEN IsFinite(mp[name][e])
    ELSE /\ IsFinite(Deref(ts.fishers[i][name], name, mp)[e])
         /\ IsFinite(Deref(ts.params[i][name], name, mp)[e])
         /\ GradFinite(i + 1, mp, ts, name, e)

\* line 61: optimizer.step() moves the live parameters in place
OptimizerStep(mp, ts, target) ==
    [name \in Names |->
        [e \in 1..Shape[name] |->
            IF GradFinite(1, mp, ts, name, e) THEN target[name][e] ELSE NaN]]

\* TrainReturn reporting the bare task loss
TrainReturnTaskLoss(results, total_loss) ==
    [num_items |-> results.n, loss |-> results.loss, acc |-> results.acc]

\* lines 62-64
TrainReturn(results, total_loss) ==
    [num_items |-> results.n, loss |-> total_loss, acc |-> results.acc]

NoReturn == [num_items |-> 0, loss |-> Zero, acc |-> Zero]

NoResults == [loss |-> Zero, n |-> 0, acc |-> Zero]

\* what a call left to observe; fields a call does not use keep these values
Observed ==
    [ op |-> "initTrainingStates", status |-> "ok", at |-> "",
      results |-> NoResults, loss_reg |-> Zero, backward_on |-> Zero,
      ret |-> NoReturn, calls |-> <<>>,
      loader |-> <<>>, total_num_items |-> 0, nograd |-> {} ]

AfterInference ==
    \E loss_reg \in {Penalty(model_params, training_states)} :
    \E results \in Results, target \in ParamPoints :
        LET total_loss == TotalLoss(results, loss_reg)
        IN  /\ model_params' = OptimizerStep(model_params, training_states, target)
            /\ last' = [Observed EXCEPT
                          !.op = "afterInference",
                          !.results = results,
                          !.loss_reg = loss_reg,
                          !.backward_on = total_loss,
                          !.calls = TrainCalls,
                          !.ret = TrainReturn(results, total_loss)]
            /\ UNCHANGED <<training_states, task_count>>

----------------------------------------------------------------------------
(* initTrainingStates, line 67 (and 143) *)

initTrainingStates == [fishers |-> <<>>, params |-> <<>>]

Init ==
    /\ model_params \in ParamPoints
    /\ training_states = initTrainingStates
    /\ task_count = 0
    /\ last = Observed

----------------------------------------------------------------------------
(* processAfterTraining, lines 82-102 (and 158-178) *)

\* line 82: the base trainer's completion hook; it returns or raises
BaseProcessAfterTraining(mp, fail) == [raised |-> fail = "base", mp |-> mp]

\* line 85: prepareLoader(...)[0]; it gives the task's train loader or raises
PrepareLoader(dataset, fail) == [raised |-> fail = "prepareLoader", loader |-> dataset]

\* lines 83-84: {name: torch.zeros_like(p)}
ZerosLike(mp) == [name \in Names |-> Owned(TZeros(Len(mp[name])))]

\* ZeroGrad left out: gradients pile up from batch to batch
ZeroGradSkipped(grad, set_to_none) == grad

\* line 89: curr_model.zero_grad() sets every p.grad to None, or, in builds
\* whose default is set_to_none=False, zeroes the gradients that exist
ZeroGrad(grad, set_to_none) ==
    [name \in Names |->
        IF set_to_none \/ ~grad[name].has THEN NoGrad(name)
        ELSE Grad(TZeros(Shape[name]))]

\* the gradient the batch's loss gives a parameter; a model holding a
\* non-finite parameter yields a non-finite loss and gradients
BatchGrad(mp, batch, name) ==
    IF batch.grad[name].has /\ \E nm \in Names : TAnyNaN(mp[nm])
    THEN Grad([e \in 1..Shape[name] |-> NaN])
    ELSE batch.grad[name]

\* line 91: backward() adds the batch's gradient into p.grad
Backward(grad, mp, batch) ==
    [name \in Names |->
        LET g == BatchGrad(mp, batch, name)
        IN  IF ~g.has THEN grad[name]
            ELSE IF grad[name].has THEN Grad(TAdd(grad[name].v, g.v))
            ELSE g]

\* SnapshotOf without clone(): the history shares the live parameter's storage
SnapshotAliased(mp, name) == LiveStorage(name)

\* line 95: params[name] = p.data.clone().detach()
SnapshotOf(mp, name) == Owned(mp[name])

\* line 96: fishers[name] += (p.grad.data.clone().detach() ** 2) * curr_num_items
FisherAdd(fisher, g, curr_num_items) ==
    IF g.has
    THEN Owned(TAdd(fisher.v, TScale(Q(curr_num_items, 1), TSquare(g.v))))
    ELSE fisher

\* FisherBatch followed by an optimizer step on the batch's loss
FisherBatchStepping(st, batch, set_to_none) ==
    IF st.raised THEN st
    ELSE IF batch.raises
    THEN [st EXCEPT !.raised = TRUE, !.calls = st.calls \o <<"zero_grad">>]
    ELSE LET grad == Backward(ZeroGrad(st.grad, set_to_none), st.mp, batch)
         IN  [ mp              |-> [name \in Names |->
                                       IF grad[name].has
                                       THEN TSub(st.mp[name], grad[name].v)
                                       ELSE st.mp[name]],
               grad            |-> grad,
               params          |-> [name \in Names |-> Owned(st.mp[name])],
               fishers         |-> [name \in Names |->
                                       FisherAdd(st.fishers[name], grad[name], batch.n)],
               total_num_items |-> st.total_num_items + batch.n,
               nograd          |-> {name \in st.nograd : ~grad[name].has},
               calls           |-> st.calls \o
                                   <<"zero_grad", "inference", "backward", "step">>,
               raised          |-> FALSE ]

\* lines 89-96: one iteration of the loop over the train loader
FisherBatch(st, batch, set_to_none) ==
    IF st.raised THEN st
    ELSE IF batch.raises
    THEN [st EXCEPT !.raised = TRUE, !.calls = st.calls \o <<"zero_grad">>]
    ELSE LET grad == Backward(ZeroGrad(st.grad, set_to_none), st.mp, batch)
         IN  [ mp              |-> st.mp,
               grad            |-> grad,
               params          |-> [name \in Names |-> SnapshotOf(st.mp, name)],
               fishers         |-> [name \in Names |->
                                       FisherAdd(st.fishers[name], grad[name], batch.n)],
               total_num_items |-> st.total_num_items + batch.n,
               nograd          |-> {name \in st.nograd : ~grad[name].has},
               calls           |-> st.calls \o <<"zero_grad", "inference", "backward">>,
               raised          |-> FALSE ]

\* lines 88-96: the loop, from batch i of the loader on
RECURSIVE FisherLoop(_, _, _, _)
FisherLoop(st, loader, i, set_to_none) ==
    IF i > Len(loader) THEN st
    ELSE FisherLoop(FisherBatch(st, loader[i], set_to_none), loader, i + 1, set_to_none)

\* lines 98-99: fishers[name] /= total_num_items
Normalize(fishers, total_num_items) ==
    [name \in Names |-> Owned(TDivInt(fishers[name].v, total_num_items))]

\* AppendPair that forgets the snapshot
AppendFisherOnly(ts, fishers, params) ==
    [fishers |-> Append(ts.fishers, fishers), params |-> ts.params]

\* lines 101-102
AppendPair(ts, fishers, params) ==
    [fishers |-> Append(ts.fishers, fishers), params |-> Append(ts.params, params)]

\* the hook raised: nothing is returned, the exception reaches the caller
Raised(mp, ts, where, calls) ==
    [ raised |-> TRUE, at |-> where, mp |-> mp, ts |-> ts, calls |-> calls,
      loader |-> <<>>, total_num_items |-> 0, nograd |-> {} ]

\* ProcessAfterTrainingRun that puts the new pair into the history before the
\* loop fills it, so that a batch that raises leaves the partial pair behind
ProcessAfterTrainingRunEarlyAppend(mp, ts, dataset, entry_grad, set_to_none, fail) ==
    LET base   == BaseProcessAfterTraining(mp, fail)
        loaded == PrepareLoader(dataset, fail)
        st0    == [ mp |-> base.mp, grad |-> entry_grad,
                    params |-> ZerosLike(base.mp), fishers |-> ZerosLike(base.mp),
                    total_num_items |-> 0, nograd |-> Names,
                    calls |-> <<>>, raised |-> FALSE ]
        st     == FisherLoop(st0, loaded.loader, 1, set_to_none)
    IN  IF base.raised THEN Raised(mp, ts, "base", <<>>)
        ELSE IF loaded.raised THEN Raised(base.mp, ts, "prepareLoader", <<>>)
        ELSE IF st.raised
        THEN Raised(st.mp, AppendPair(ts, st.fishers, st.params), "batch", st.calls)
        ELSE [ raised |-> FALSE, at |-> "", mp |-> st.mp,
               ts |-> AppendPair(ts, Normalize(st.fishers, st.total_num_items),
                                 st.params),
               calls |-> st.calls, loader |-> loaded.loader,
               total_num_items |-> st.total_num_items, nograd |-> st.nograd ]

\* lines 82-102: the whole hook; what it leaves behind, or that it raised
ProcessAfterTrainingRun(mp, ts, dataset, entry_grad, set_to_none, fail) ==
    LET base   == BaseProcessAfterTraining(mp, fail)
        loaded == PrepareLoader(dataset, fail)
        st0    == [ mp |-> base.mp, grad |-> entry_grad,
                    params |-> ZerosLike(base.mp), fishers |-> ZerosLike(base.mp),
                    total_num_items |-> 0, nograd |-> Names,
                    calls |-> <<>>, raised |-> FALSE ]
        st     == FisherLoop(st0, loaded.loader, 1, set_to_none)
    IN  IF base.raised THEN Raised(mp, ts, "base", <<>>)
        ELSE IF loaded.raised THEN Raised(base.mp, ts, "prepareLoader", <<>>)
        ELSE IF st.raised THEN Raised(st.mp, ts, "batch", st.calls)
        ELSE [ raised |-> FALSE, at |-> "", mp |-> st.mp,
               ts |-> AppendPair(ts, Normalize(st.fishers, st.total_num_items),
                                 st.params),
               calls |-> st.calls, loader |-> loaded.loader,
               total_num_items |-> st.total_num_items, nograd |-> st.nograd ]

FailureModes == {"none", "base", "prepareLoader"}

\* bound: tasks a run completes
MaxTasks == 2

\* The inputs of one call of the hook.  A call whose base hook or
\* prepareLoader raises never reads the loader, p.grad or the build's
\* zero_grad default, so one representative of them is enough there.
HookInputs(datasets) ==
    [dataset : datasets, entry_grad : EntryGrads,
     set_to_none : BOOLEAN, fail : {"none"}]
    \cup [dataset : {<<>>}, entry_grad : {NoGrads},
          set_to_none : {TRUE}, fail : FailureModes \ {"none"}]

ProcessAfterTrainingOn(datasets) ==
    /\ task_count < MaxTasks
    /\ \E inp \in HookInputs(datasets) :
        \E r \in {ProcessAfterTrainingRun(model_params, training_states, inp.dataset,
                                         inp.entry_grad, inp.set_to_none, inp.fail)} :
            /\ model_params' = r.mp
            /\ training_states' = r.ts
            /\ task_count' = IF r.raised THEN task_count ELSE task_count + 1
            /\ last' = [Observed EXCEPT
                          !.op = "processAfterTraining",
                          !.status = IF r.raised THEN "raised" ELSE "ok",
                          !.at = r.at,
                          !.calls = r.calls,
                          !.loader = r.loader,
                          !.total_num_items = r.total_num_items,
                          !.nograd = r.nograd]

ProcessAfterTraining == ProcessAfterTrainingOn(Datasets)

Next == AfterInference \/ ProcessAfterTraining

Spec == Init /\ [][Next]_vars

----------------------------------------------------------------------------
(* The Fisher pass alone, over every loader of at most MaxBatches batches *)

\* bound: batches a train loader yields
MaxBatches == 2

BatchSizes == {0, 3, 5}

WGrads == { Gw(Q(1, 10), Zero), Gw(Q(-1, 5), Q(1, 10)) }

BGrads == { NoGrad("b"), Grad(<<Q(1, 10)>>) }

BatchSpace ==
    { Batch(k, gw, gb) : k \in BatchSizes, gw \in WGrads, gb \in BGrads }
    \cup {RaisingBatch}

Loaders == UNION { [1..k -> BatchSpace] : k \in 0..MaxBatches }

FisherPass == task_count = 0 /\ ProcessAfterTrainingOn(Loaders)

SpecFisher == Init /\ [][FisherPass]_vars

----------------------------------------------------------------------------
(* Properties *)

Hook == "processAfterTraining"

Completed == last.op = Hook /\ last.status = "ok"

NumEntries == Len(training_states.params)

\* entry i of the history, as values
SnapshotAt(ts, mp, i, name) == Deref(ts.params[i][name], name, mp)

FisherAt(ts, mp, i, name) == Deref(ts.fishers[i][name], name, mp)

Cells == UNION { { <<name, e>> : e \in 1..Shape[name] } : name \in Names }

RECURSIVE SumOver(_, _)
SumOver(F(_), S) ==
    IF S = {} THEN Zero
    ELSE LET x == CHOOSE y \in S : TRUE
         IN  Add(F(x), SumOver(F, S \ {x}))

\* sum over entries i, parameter names and elements of
\* lamb * fishers[i][name] * (current[name] - params[i][name])^2
PenaltySum(mp, ts) ==
    SumOver(LAMBDA t :
                LET i == t[1]
                    name == t[2][1]
                    e == t[2][2]
                    drift == Sub(mp[name][e], SnapshotAt(ts, mp, i, name)[e])
                IN  Mul(Q(lamb, 1), Mul(FisherAt(ts, mp, i, name)[e], Mul(drift, drift))),
            (1..Len(ts.fishers)) \X Cells)

\* C1: the two sequences of the history always have as many entries as
\* tasks were completed; a completed task adds exactly one entry to both, a
\* training step or a failed hook adds none, and no step removes one.
HistoryLengthsFollowTasks ==
    /\ [](/\ Len(training_states.params) = task_count
          /\ Len(training_states.fishers) = task_count)
    /\ [][LET dp == Len(training_states'.params) - Len(training_states.params)
              df == Len(training_states'.fishers) - Len(training_states.fishers)
          IN  /\ dp = df
              /\ dp >= 0
              /\ (last'.op = "afterInference" => dp = 0)
              /\ (last'.op = Hook /\ last'.status = "ok" => dp = 1)
              /\ (last'.op = Hook /\ last'.status = "raised" => dp = 0)]_vars

\* C1 witness: training steps interleaved after two completed tasks
TwoTasksThenTraining ==
    /\ task_count = 2
    /\ Len(training_states.params) = 2
    /\ Len(training_states.fishers) = 2
    /\ last.op = "afterInference"

\* C2: a hook that sees zero items ends in an error, and no Fisher entry of
\* the history holds a NaN or Inf value.
ZeroItemsIsFatal ==
    /\ (Completed => last.total_num_items > 0)
    /\ \A i \in 1..Len(training_states.fishers) : \A name \in Names :
           ~TAnyNaN(FisherAt(training_states, model_params, i, name))

\* C3: a hook that raises (in the base hook, in prepareLoader or on a batch)
\* leaves the history exactly as it was.
FailedHookLeavesHistory ==
    [][(last'.op = Hook /\ last'.status = "raised")
         => /\ training_states' = training_states
            /\ task_count' = task_count
            /\ Len(training_states'.params) = Len(training_states'.fishers)]_vars

\* C3 witness: the second batch of a later task raised, after one batch was
\* already accumulated, and the first task's pair is still the whole history
BatchRaisedAfterFirstTask ==
    /\ last.op = Hook
    /\ last.status = "raised"
    /\ last.at = "batch"
    /\ last.calls = <<"zero_grad", "inference", "backward", "zero_grad">>
    /\ task_count = 1
    /\ NumEntries = 1

\* C4: every entry of the history keeps its position and its values over
\* every step: training steps, completed hooks and failed hooks.
HistoryEntriesImmutable ==
    [][\A i \in 1..Len(training_states.params) :
          /\ i <= Len(training_states'.params)
          /\ i <= Len(training_states'.fishers)
          /\ \A name \in Names :
                /\ SnapshotAt(training_states', model_params', i, name)
                     = SnapshotAt(training_states, model_params, i, name)
                /\ FisherAt(training_states', model_params', i, name)
                     = FisherAt(training_states, model_params, i, name)]_vars

\* C4 witness: after two tasks a training step has moved the live
\* parameters away from both stored snapshots
LiveDriftedFromSnapshots ==
    /\ task_count = 2
    /\ last.op = "afterInference"
    /\ \A i \in 1..2 :
          SnapshotAt(training_states, model_params, i, "w") # model_params["w"]

\* no NaN or Inf among the live parameters and the stored snapshots
AllFinite(ts, mp) ==
    \A name \in Names :
        /\ ~TAnyNaN(mp[name])
        /\ \A i \in 1..Len(ts.params) : ~TAnyNaN(SnapshotAt(ts, mp, i, name))

\* the history of the worked example: fisher 0.01 and 0.02, snapshot 1.0 and
\* 2.0 for the first element of w, every other Fisher value zero
ExampleHistory(ts, mp) ==
    /\ Len(ts.params) = 2
    /\ Len(ts.fishers) = 2
    /\ FisherAt(ts, mp, 1, "w") = <<Q(1, 100), Zero>>
    /\ FisherAt(ts, mp, 2, "w") = <<Q(2, 100), Zero>>
    /\ FisherAt(ts, mp, 1, "b") = <<Zero>>
    /\ FisherAt(ts, mp, 2, "b") = <<Zero>>
    /\ SnapshotAt(ts, mp, 1, "w")[1] = Q(1, 1)
    /\ SnapshotAt(ts, mp, 2, "w")[1] = Q(2, 1)

\* C5: the penalty of a training step is the sum over the history's entries,
\* the parameter names and the elements of lamb * fisher * (current -
\* snapshot)^2, taken on the values the step starts from; it is 0 on an empty
\* history and 75 in the worked example (current value 1.5, lamb 10000).
PenaltyIsWeightedDriftSum ==
    [][last'.op = "afterInference"
         => /\ last'.loss_reg = PenaltySum(model_params, training_states)
            /\ (Len(training_states.params) = 0 => last'.loss_reg = Zero)
            /\ (/\ lamb = 10000
                /\ ExampleHistory(training_states, model_params)
                /\ model_params["w"][1] = Q(3, 2)
                /\ AllFinite(training_states, model_params)
                => last'.loss_reg = Q(75, 1))]_vars

\* C5 witness: a training step taken in the worked example, which left the
\* parameters where they were, computed 75
ExamplePenaltyComputed ==
    /\ last.op = "afterInference"
    /\ ExampleHistory(training_states, model_params)
    /\ model_params["w"][1] = Q(3, 2)
    /\ last.loss_reg = Q(75, 1)

\* C6: the snapshot a completed hook appends holds, for every parameter
\* name, the value the live model has at that time, whatever the number of
\* batches.
SnapshotIsLiveValue ==
    Completed =>
        \A name \in Names :
            SnapshotAt(training_states, model_params, NumEntries, name)
              = model_params[name]

TrainingStepOrder ==
    [][last'.op = "afterInference"
         => LET total == Add(last'.results.loss,
                             PenaltySum(model_params, training_states))
            IN  /\ last'.calls = <<"backward", "step">>
                /\ last'.backward_on = total
                /\ last'.ret.loss = total
                /\ last'.ret.num_items = last'.results.n
                /\ last'.ret.acc = last'.results.acc
                /\ training_states' = training_states]_vars

\* C9 witness: a training step with a non-zero finite penalty and a non-zero
\* task loss
PenalisedTrainingStep ==
    /\ last.op = "afterInference"
    /\ task_count >= 1
    /\ IsFinite(last.loss_reg)
    /\ last.loss_reg # Zero
    /\ last.results.loss # Zero
    /\ last.ret.loss = Add(last.results.loss, last.loss_reg)

\* C10: a parameter without a gradient in every batch of a completed Fisher
\* pass gets an all-zero Fisher entry, which adds exactly 0 to the penalty.
NoGradientMeansZeroFisher ==
    (Completed /\ Len(last.loader) >= 1) =>
        \A name \in last.nograd :
            LET fisher == FisherAt(training_states, model_params, NumEntries, name)
                param  == SnapshotAt(training_states, model_params, NumEntries, name)
            IN  /\ fisher = TZeros(Shape[name])
                /\ TSum(PenaltyTerm(model_params[name], fisher, param)) = Zero

----------------------------------------------------------------------------
(* Properties of the Fisher pass alone *)

\* the batch's own gradient of element e of a parameter, squared; 0 when the
\* parameter has none
SquaredGrad(mp, batch, name, e) ==
    LET g == BatchGrad(mp, batch, name)
    IN  IF g.has THEN Mul(g.v[e], g.v[e]) ELSE Zero

\* (sum over batches of n_b * g_b^2) / (sum over batches of n_b)
WeightedMeanSquare(mp, loader, name, e) ==
    LET num == SumOver(LAMBDA k : Mul(Q(loader[k].n, 1),
                                      SquaredGrad(mp, loader[k], name, e)),
                       1..Len(loader))
        den == SumOver(LAMBDA k : Q(loader[k].n, 1), 1..Len(loader))
    IN  Norm(num.n * den.d, num.d * den.n)

\* C8: for a task with at least one item the stored Fisher value of every
\* element is the item-weighted mean of the batches' own squared gradients;
\* it is g^2 when every batch has the same gradient g, and never negative.
FisherIsWeightedMeanSquare ==
    (Completed /\ last.total_num_items >= 1) =>
        \A name \in Names : \A e \in 1..Shape[name] :
            LET stored == FisherAt(training_states, model_params, NumEntries, name)[e]
                first  == BatchGrad(model_params, last.loader[1], name)
            IN  /\ stored = WeightedMeanSquare(model_params, last.loader, name, e)
                /\ ~Less(stored, Zero)
                /\ IsFinite(stored)
                /\ ( (/\ first.has
                      /\ \A k \in 1..Len(last.loader) :
                            BatchGrad(model_params, last.loader[k], name) = first)
                     => stored = Mul(first.v[e], first.v[e]) )

\* C8 witness: batches of 3 and 5 items with the same gradient 1/10 for the
\* first element of w; the stored value is 1/100
SameGradientSizesThreeAndFive ==
    /\ Completed
    /\ Len(last.loader) = 2
    /\ last.loader[1].n = 3
    /\ last.loader[2].n = 5
    /\ last.loader[1].grad["w"] = Gw(Q(1, 10), Zero)
    /\ last.loader[2].grad["w"] = Gw(Q(1, 10), Zero)
    /\ FisherAt(training_states, model_params, NumEntries, "w")[1] = Q(1, 100)

====
